---- MODULE Spec2Model ----
(***************************************************************************)
(* Chameleon-SRE: the command safety gate (src/src/utils.py), the command  *)
(* executor and its wrapper tools (src/src/tools.py) and the agent control *)
(* loop (src/src/agent.py, src/src/state.py).                              *)
(*                                                                         *)
(* Strings are TLA+ strings; TLC evaluates Len, \o and SubSeq on them, so  *)
(* lower-casing and substring search are computed character by character.  *)
(***************************************************************************)
EXTENDS Integers, Sequences, FiniteSets, TLC

VARIABLES
    allow_destructive_commands, \* settings.allow_destructive_commands
    dry_run_mode,               \* settings.dry_run_mode
    exec_log,                   \* one record per call of execute_k8s_command
    pc,                         \* "direct" | "agent" | "tools" | "END" | "retrieve" | ... | "runs"
    max_iterations,             \* MAX_ITERATIONS of the run
    current_task,               \* state["current_task"]
    messages,                   \* state["messages"]
    error_log,                  \* state["error_log"]
    iteration_count,            \* state["iteration_count"]
    task_complete,              \* state["task_complete"]
    last_tool_output,           \* state["last_tool_output"]
    knowledge_context,          \* state["knowledge_context"]
    think_log,                  \* one record per run of agent_node
    top_k,                      \* retrieve: top_k
    min_relevance,              \* retrieve: min_relevance, in units of 1/Scale
    store_results,              \* what vector_store.query returned
    documents,                  \* what retrieve returned
    store_status,               \* "ok" | "query_failed" | "unavailable"
    max_length,                 \* format_context: max_length
    context,                    \* what format_context or read_rag_docs returned
    runs,                       \* the side-by-side runs: state, position, answers so far
    heap                        \* the list objects that the states of `runs` refer to

settingsVars == <<allow_destructive_commands, dry_run_mode>>
agentVars == <<pc, max_iterations, current_task, messages, error_log, iteration_count,
               task_complete, last_tool_output, knowledge_context, think_log>>
ragVars == <<top_k, min_relevance, store_results, documents, store_status, max_length,
             context>>
vars == <<allow_destructive_commands, dry_run_mode, exec_log, pc, max_iterations,
          current_task, messages, error_log, iteration_count, task_complete, last_tool_output,
          knowledge_context, think_log, top_k, min_relevance, store_results, documents,
          store_status, max_length, context, runs, heap>>
runVars == <<runs, heap>>

\* No side-by-side runs.
RunsIdle == runs = <<>> /\ heap = <<>>

agentVarsButPc == <<max_iterations, current_task, messages, error_log, iteration_count,
                    task_complete, last_tool_output, knowledge_context, think_log>>

\* The retriever is not in use.
RagIdle ==
    /\ top_k = 0
    /\ min_relevance = 0
    /\ store_results = <<>>
    /\ documents = <<>>
    /\ store_status = "ok"
    /\ max_length = 0
    /\ context = ""

(***************************************************************************)
(* Bounds of the model.                                                    *)
(***************************************************************************)
MaxIterBound == 3   \* max_iterations ranges over 0..MaxIterBound
CallBudget == 6     \* tool calls the model may request freely in one run

(***************************************************************************)
(* Strings.                                                                *)
(***************************************************************************)
UpperChars == <<"A","B","C","D","E","F","G","H","I","J","K","L","M",
                "N","O","P","Q","R","S","T","U","V","W","X","Y","Z">>
LowerChars == <<"a","b","c","d","e","f","g","h","i","j","k","l","m",
                "n","o","p","q","r","s","t","u","v","w","x","y","z">>
UpperSet == { UpperChars[i] : i \in 1..26 }
LowerOf == [c \in UpperSet |-> LowerChars[CHOOSE i \in 1..26 : UpperChars[i] = c]]

\* str.lower() on one character
LowerChar(c) == IF c \in UpperSet THEN LowerOf[c] ELSE c

\* str.lower() on the characters i..j of s, by halves
RECURSIVE LowerFrom(_, _, _)
LowerFrom(s, i, j) ==
    IF i > j THEN ""
    ELSE IF i = j THEN LowerChar(SubSeq(s, i, i))
    ELSE LowerFrom(s, i, (i + j) \div 2) \o LowerFrom(s, (i + j) \div 2 + 1, j)

\* str.lower()
Lower(s) == LowerFrom(s, 1, Len(s))

\* Python's `p in s` on strings
Contains(s, p) ==
    \E i \in 1..(Len(s) - Len(p) + 1) : SubSeq(s, i, i + Len(p) - 1) = p

(***************************************************************************)
(* The command safety gate: sanitize_command.                              *)
(***************************************************************************)
dangerous_patterns == <<"rm -rf", "delete", "drain", "cordon", "taint">>

\* A plausible slip: the patterns are looked for in the command as given,
\* not in command.lower().
MatchedPatterns_case_sensitive(command, allow) ==
    { i \in 1..Len(dangerous_patterns) :
        Contains(command, dangerous_patterns[i]) /\ ~allow }

\* The patterns for which the loop body raises, in list order.
MatchedPatterns(command, allow) ==
    { i \in 1..Len(dangerous_patterns) :
        Contains(Lower(command), dangerous_patterns[i]) /\ ~allow }

\* sanitize_command: raises ValueError on the first matching pattern,
\* otherwise returns the command unchanged.
sanitize_command(command, allow) ==
    LET hit == MatchedPatterns(command, allow) IN
    IF hit # {}
    THEN [raised |-> TRUE,
          value |-> dangerous_patterns[CHOOSE i \in hit : \A j \in hit : i <= j]]
    ELSE [raised |-> FALSE, value |-> command]

\* The gate's verdict on a command under a configuration.
Classify(command, allow) ==
    IF sanitize_command(command, allow).raised THEN "BLOCKED" ELSE "ALLOWED"

(***************************************************************************)
(* The external cluster client: what subprocess.run can do with a command. *)
(***************************************************************************)
LongOutput == [i \in 1..52 |-> "pod-" \o ToString(i) \o " Running"]

\* Fifty lines; fifty lines and the line break that ends the last one;
\* fifty-one lines between blank lines.
FiftyLines == SubSeq(LongOutput, 1, 50)
FiftyLinesNewline == FiftyLines \o <<"">>
PaddedOutput == <<"">> \o SubSeq(LongOutput, 1, 51) \o <<"", "">>

Stdouts ==
    { <<>>, <<"NAME READY STATUS", "web-0 1/1 Running">>, LongOutput,
      FiftyLines, FiftyLinesNewline, PaddedOutput }

ShellOutcomes ==
    { [kind |-> "exit", returncode |-> 0, stdout |-> o, stderr |-> ""] : o \in Stdouts }
    \cup { [kind |-> "exit", returncode |-> 1, stdout |-> <<>>, stderr |-> e] :
             e \in {"", "Error from server (NotFound)"} }
    \cup { [kind |-> k, returncode |-> 0, stdout |-> <<>>, stderr |-> ""] :
             k \in {"timeout", "oserror"} }

(***************************************************************************)
(* The command executor: format_kubectl_output and execute_k8s_command.    *)
(***************************************************************************)
max_lines == 50
timeout_seconds == 300

RECURSIVE StripLeading(_)
StripLeading(lines) ==
    IF lines # <<>> /\ Head(lines) = "" THEN StripLeading(Tail(lines)) ELSE lines

RECURSIVE StripTrailing(_)
StripTrailing(lines) ==
    IF lines # <<>> /\ lines[Len(lines)] = ""
    THEN StripTrailing(SubSeq(lines, 1, Len(lines) - 1))
    ELSE lines

\* output.strip().split("\n"), on an output held as its sequence of lines
StripSplit(output) ==
    LET stripped == StripTrailing(StripLeading(output)) IN
    IF stripped = <<>> THEN <<"">> ELSE stripped

\* A plausible slip: < for <= in the test of the line count.
format_kubectl_output_off_by_one(output, maxLines) ==
    LET lines == StripSplit(output) IN
    IF Len(lines) < maxLines
    THEN output
    ELSE SubSeq(lines, 1, maxLines)
         \o <<"", "... (" \o ToString(Len(lines) - maxLines) \o " more lines truncated)">>

\* format_kubectl_output(output, max_lines)
format_kubectl_output(output, maxLines) ==
    LET lines == StripSplit(output) IN
    IF Len(lines) <= maxLines
    THEN output
    ELSE SubSeq(lines, 1, maxLines)
         \o <<"", "... (" \o ToString(Len(lines) - maxLines) \o " more lines truncated)">>

\* " --dry-run=client" is appended unless "get" occurs in the command
DryRunSuffix(command, dry) ==
    IF dry /\ ~Contains(Lower(command), "get") THEN " --dry-run=client" ELSE ""

\* A plausible slip: no `except Exception` clause, so a fault other than a
\* timeout leaves the executor as an exception.
ShellResult_without_catch_all(outcome) ==
    CASE outcome.kind = "timeout" ->
           [kind |-> "timeout",
            text |-> <<"X Command timed out after "
                       \o ToString(timeout_seconds) \o " seconds">>]
      [] outcome.kind = "oserror" ->
           [kind |-> "raised", text |-> <<"OSError">>]
      [] outcome.kind = "exit" /\ outcome.returncode # 0 ->
           [kind |-> "failed",
            text |-> <<"X Error: " \o (IF outcome.stderr # "" THEN outcome.stderr
                                       ELSE "Unknown error")>>]
      [] OTHER ->
           [kind |-> "ok",
            text |-> format_kubectl_output(
                       IF outcome.stdout # <<>> THEN outcome.stdout
                       ELSE <<"Command executed successfully (no output)">>,
                       max_lines)]

\* The value execute_k8s_command returns once subprocess.run has been called:
\* `kind` names the return statement that produced it.
ShellResult(outcome) ==
    CASE outcome.kind = "timeout" ->
           [kind |-> "timeout",
            text |-> <<"X Command timed out after "
                       \o ToString(timeout_seconds) \o " seconds">>]
      [] outcome.kind = "oserror" ->
           [kind |-> "unexpected", text |-> <<"X Unexpected error: OSError">>]
      [] outcome.kind = "exit" /\ outcome.returncode # 0 ->
           [kind |-> "failed",
            text |-> <<"X Error: " \o (IF outcome.stderr # "" THEN outcome.stderr
                                       ELSE "Unknown error")>>]
      [] OTHER ->
           [kind |-> "ok",
            text |-> format_kubectl_output(
                       IF outcome.stdout # <<>> THEN outcome.stdout
                       ELSE <<"Command executed successfully (no output)">>,
                       max_lines)]

\* The value returned when sanitize_command raised ValueError.
BlockedResult(pattern) ==
    [kind |-> "blocked",
     text |-> <<"X Dangerous command detected: '" \o pattern
                \o "'. Set ALLOW_DESTRUCTIVE_COMMANDS=true to enable.">>]

\* A plausible slip: the command reaches the shell before the gate's verdict
\* is acted upon.
execute_k8s_command_run_first(command, allow, dry, outcome) ==
    LET gate == sanitize_command(command, allow) IN
    [command |-> command,
     handed |-> <<command \o DryRunSuffix(command, dry)>>,
     shell |-> <<outcome>>,
     result |-> IF gate.raised THEN BlockedResult(gate.value) ELSE ShellResult(outcome)]

\* execute_k8s_command: `handed` holds the string given to subprocess.run
\* (shell=True), or nothing when the call never reaches it; `shell` holds
\* what subprocess.run then did; `result` is the returned value.
execute_k8s_command(command, allow, dry, outcome) ==
    LET gate == sanitize_command(command, allow) IN
    IF gate.raised
    THEN [command |-> command, handed |-> <<>>, shell |-> <<>>,
          result |-> BlockedResult(gate.value)]
    ELSE [command |-> command,
          handed |-> <<gate.value \o DryRunSuffix(command, dry)>>,
          shell |-> <<outcome>>,
          result |-> ShellResult(outcome)]

(***************************************************************************)
(* The wrapper tools: each assembles a command and calls the executor.     *)
(***************************************************************************)
\* A plausible slip: the gate sees the command before the label selector is
\* appended to it.
get_pod_status_gate_first(namespace, label_selector, allow, dry, outcome) ==
    LET base == execute_k8s_command("kubectl get pods -n " \o namespace,
                                    allow, dry, outcome)
        rest == (IF label_selector # "" THEN " -l " \o label_selector ELSE "")
                \o " -o wide"
    IN [command |-> base.command \o rest,
        handed |-> IF base.handed = <<>> THEN <<>> ELSE <<base.handed[1] \o rest>>,
        shell |-> base.shell,
        result |-> base.result]

\* get_pod_status(namespace, label_selector); "" stands for None
get_pod_status(namespace, label_selector, allow, dry, outcome) ==
    execute_k8s_command(
        "kubectl get pods -n " \o namespace
        \o (IF label_selector # "" THEN " -l " \o label_selector ELSE "")
        \o " -o wide",
        allow, dry, outcome)

\* read_pod_logs(pod_name, namespace, tail, container); "" stands for None
read_pod_logs(pod_name, namespace, tail, container, allow, dry, outcome) ==
    execute_k8s_command(
        "kubectl logs " \o pod_name \o " -n " \o namespace
        \o " --tail=" \o ToString(tail)
        \o (IF container # "" THEN " -c " \o container ELSE ""),
        allow, dry, outcome)

\* describe_resource(resource_type, resource_name, namespace)
describe_resource(resource_type, resource_name, namespace, allow, dry, outcome) ==
    execute_k8s_command(
        "kubectl describe " \o resource_type \o " " \o resource_name
        \o " -n " \o namespace,
        allow, dry, outcome)

(***************************************************************************)
(* Inputs of the direct tool calls.                                        *)
(***************************************************************************)
\* SANY's lexer rejects the backtick inside a string: "^" stands for it.
Backtick == "^"

Commands ==
    { "kubectl get pods",
      "kubectl describe pod nginx-123",
      "kubectl logs nginx-123 --tail=50",
      "kubectl top nodes",
      "kubectl rollout restart deployment/nginx",
      "kubectl get pods | grep nginx",
      "kubectl get pods && kubectl get nodes",
      "kubectl get pods; whoami",
      "kubectl get pods " \o Backtick \o "whoami" \o Backtick,
      "kubectl get pods $(whoami)",
      "kubectl delete namespace production",
      "kubectl Delete NAMESPACE prod",
      "kubectl delete pods --all",
      "kubectl DELETE deployment --all",
      "kubectl delete pod web-0",
      "kubectl drain node-1",
      "kubectl apply -f fix.yaml; rm",
      "kubectl get pods -l app=deleter",
      "kubectl describe node drain-test-1",
      "kubectl scale deployment/nginx --replicas=3",
      "kubectl scale deployment/widget --replicas=0",
      "kubectl annotate pod nginx-123 description=test",
      "kubectl cordon node-1",
      "kubectl Taint nodes node-1 key=value:NoSchedule" }

Namespaces == { "default", "prod; kubectl delete pod web-0" }
LabelSelectors == { "", "app=nginx", "app=web --all | xargs kubectl delete pod" }
PodNames == { "nginx-123" }
Tails == { 50 }
Containers == { "", "sidecar; whoami" }
ResourceTypes == { "pod" }
ResourceNames == { "nginx-123", "web-0 && kubectl taint nodes n1 k=v:NoSchedule" }

Record(tool, call) ==
    [tool |-> tool, command |-> call.command, handed |-> call.handed,
     shell |-> call.shell,
     result |-> call.result]

(***************************************************************************)
(* Direct tool calls: a tool called on its own, as the tests and the       *)
(* command line do.  The tools keep no state between calls, so a behaviour *)
(* of SpecExec is one call under one configuration.                        *)
(***************************************************************************)
DirectGuard == pc = "direct" /\ exec_log = <<>>

ExecuteK8sCommand ==
    /\ DirectGuard
    /\ \E command \in Commands, outcome \in ShellOutcomes :
         exec_log' = Append(exec_log,
            Record("execute_k8s_command",
                   execute_k8s_command(command, allow_destructive_commands,
                                       dry_run_mode, outcome)))
    /\ UNCHANGED <<settingsVars, agentVars, ragVars, runVars>>

GetPodStatus ==
    /\ DirectGuard
    /\ \E namespace \in Namespaces, label_selector \in LabelSelectors,
          outcome \in ShellOutcomes :
         exec_log' = Append(exec_log,
            Record("get_pod_status",
                   get_pod_status(namespace, label_selector,
                                  allow_destructive_commands, dry_run_mode, outcome)))
    /\ UNCHANGED <<settingsVars, agentVars, ragVars, runVars>>

ReadPodLogs ==
    /\ DirectGuard
    /\ \E pod_name \in PodNames, namespace \in Namespaces, tail \in Tails,
          container \in Containers, outcome \in ShellOutcomes :
         exec_log' = Append(exec_log,
            Record("read_pod_logs",
                   read_pod_logs(pod_name, namespace, tail, container,
                                 allow_destructive_commands, dry_run_mode, outcome)))
    /\ UNCHANGED <<settingsVars, agentVars, ragVars, runVars>>

DescribeResource ==
    /\ DirectGuard
    /\ \E resource_type \in ResourceTypes, resource_name \in ResourceNames,
          namespace \in Namespaces, outcome \in ShellOutcomes :
         exec_log' = Append(exec_log,
            Record("describe_resource",
                   describe_resource(resource_type, resource_name, namespace,
                                     allow_destructive_commands, dry_run_mode, outcome)))
    /\ UNCHANGED <<settingsVars, agentVars, ragVars, runVars>>

InitSettings ==
    /\ allow_destructive_commands \in BOOLEAN
    /\ dry_run_mode \in BOOLEAN
    /\ exec_log = <<>>

InitExec ==
    /\ InitSettings
    /\ pc = "direct"
    /\ max_iterations = 0
    /\ current_task = ""
    /\ messages = <<>>
    /\ error_log = <<>>
    /\ iteration_count = 0
    /\ task_complete = FALSE
    /\ last_tool_output = <<>>
    /\ knowledge_context = <<>>
    /\ think_log = <<>>
    /\ RagIdle
    /\ RunsIdle

NextExec == ExecuteK8sCommand \/ GetPodStatus \/ ReadPodLogs \/ DescribeResource

SpecExec == InitExec /\ [][NextExec]_vars

(***************************************************************************)
(* The agent control loop: state.py and agent.py.                          *)
(***************************************************************************)
MaxConsecutiveErrors == 5

\* A plausible slip: the iteration limit is not checked.
should_continue_no_limit(taskComplete, iterationCount, errorLog, maxIterations) ==
    IF taskComplete THEN FALSE
    ELSE IF Len(errorLog) >= MaxConsecutiveErrors THEN FALSE
    ELSE TRUE

\* A plausible slip: > for >= in the error check.
should_continue_off_by_one(taskComplete, iterationCount, errorLog, maxIterations) ==
    IF taskComplete THEN FALSE
    ELSE IF iterationCount >= maxIterations THEN FALSE
    ELSE IF Len(errorLog) > MaxConsecutiveErrors THEN FALSE
    ELSE TRUE

\* A plausible slip: > for >= in the test of the iteration limit.
should_continue_past_limit(taskComplete, iterationCount, errorLog, maxIterations) ==
    IF taskComplete THEN FALSE
    ELSE IF iterationCount > maxIterations THEN FALSE
    ELSE IF Len(errorLog) >= MaxConsecutiveErrors THEN FALSE
    ELSE TRUE

\* should_continue(state, max_iterations)
should_continue(taskComplete, iterationCount, errorLog, maxIterations) ==
    IF taskComplete THEN FALSE
    ELSE IF iterationCount >= maxIterations THEN FALSE
    ELSE IF Len(errorLog) >= MaxConsecutiveErrors THEN FALSE
    ELSE TRUE

\* A plausible slip: a response without tool calls goes on to the tool node
\* (and from there back to the agent) instead of ending the run.
should_continue_routing_free_text(taskComplete, iterationCount, errorLog, maxIterations, msgs) ==
    IF ~should_continue(taskComplete, iterationCount, errorLog, maxIterations) THEN "end"
    ELSE IF taskComplete THEN "end"
    ELSE "tools"

\* should_continue_routing(state): "tools" or "end"
should_continue_routing(taskComplete, iterationCount, errorLog, maxIterations, msgs) ==
    IF ~should_continue(taskComplete, iterationCount, errorLog, maxIterations) THEN "end"
    ELSE IF taskComplete THEN "end"
    ELSE IF msgs[Len(msgs)].tool_calls # <<>> THEN "tools"
    ELSE "end"

\* A plausible slip: the "end" key of the conditional edge is wired back to
\* the agent node.
AfterAgent_end_to_agent(route) == IF route = "tools" THEN "tools" ELSE "agent"

\* A plausible slip: the edge out of the tool node leads to END.
AfterTools_to_end == "END"

\* The edges of create_agent_graph: the node that runs after `node`.
AfterAgent(route) == IF route = "tools" THEN "tools" ELSE "END"
AfterTools == "agent"

\* Messages.  `content` is the text as its sequence of lines; tool_call_id 0
\* stands for a message that answers no tool call.
Message(role, content, tool_calls, tool_call_id) ==
    [role |-> role, content |-> content, tool_calls |-> tool_calls,
     tool_call_id |-> tool_call_id]

UserMessage(text) == Message("user", <<text>>, <<>>, 0)
AIMessage(text, tool_calls) == Message("assistant", <<text>>, tool_calls, 0)
ToolMessage(content, id) == Message("tool", content, <<>>, id)

\* A plausible slip: the counter starts at 1.
create_initial_state_counts_from_one(user_input) ==
    [messages |-> <<UserMessage(user_input)>>,
     current_task |-> user_input,
     error_log |-> <<>>,
     iteration_count |-> 1,
     task_complete |-> FALSE,
     last_tool_output |-> <<>>,
     knowledge_context |-> <<>>]

\* create_initial_state(user_input)
create_initial_state(user_input) ==
    [messages |-> <<UserMessage(user_input)>>,
     current_task |-> user_input,
     error_log |-> <<>>,
     iteration_count |-> 0,
     task_complete |-> FALSE,
     last_tool_output |-> <<>>,
     knowledge_context |-> <<>>]

completion_keywords == <<"complete", "done", "finished", "resolved">>

\* any(keyword in content for keyword in [...]) on response.content.lower()
HasCompletionKeyword(text) ==
    \E i \in 1..Len(completion_keywords) : Contains(Lower(text), completion_keywords[i])

(***************************************************************************)
(* The inference collaborator: what llm_with_tools.invoke can answer.      *)
(***************************************************************************)
UserInputs == { "Check pod status" }

\* The first text ends with a tool call written out as text, as a model does
\* when it fails to use the tool-call channel.
ResponseTexts ==
    { "I am still looking at the pods {\"name\": \"get_pod_status\", \"parameters\": {}}",
      "The issue is RESOLVED" }

\* The text of a response that carries tool calls.
ToolCallTexts == { "", "Restarting the pod, then we are Done" }

\* The tool calls a response can carry, without their ids: the executor, the
\* knowledge search, a registered tool called without a required argument,
\* and a tool that is not registered.
CallKinds ==
    { [name |-> "execute_k8s_command", arg |-> "kubectl delete pod web-0"],
      [name |-> "read_rag_docs", arg |-> "ImagePullBackOff causes"],
      [name |-> "describe_resource", arg |-> "pod"],
      [name |-> "restart_pod", arg |-> "web-0"] }

ProbeCall == [name |-> "execute_k8s_command", arg |-> "kubectl delete pod web-0"]

\* The names of AGENT_TOOLS, which `tools` of tool_node is keyed by.
ToolRegistry ==
    { "execute_k8s_command", "get_pod_status", "read_pod_logs",
      "describe_resource", "read_rag_docs", "system_voice_alert" }

\* What a call takes from CallBudget: a call of a registered tool counts
\* twice, a call of an unregistered one once.
CallCost(call) == IF call.name \in ToolRegistry THEN 2 ELSE 1

RECURSIVE ListCost(_, _)
ListCost(calls, i) ==
    IF i > Len(calls) THEN 0 ELSE CallCost(calls[i]) + ListCost(calls, i + 1)

RECURSIVE CountCalls(_, _)
CountCalls(msgs, i) ==
    IF i > Len(msgs) THEN 0 ELSE Len(msgs[i].tool_calls) + CountCalls(msgs, i + 1)

\* Tool calls requested so far in the run.
TotalCalls(msgs) == CountCalls(msgs, 1)

RECURSIVE UsedBudget(_, _)
UsedBudget(msgs, i) ==
    IF i > Len(msgs) THEN 0
    ELSE ListCost(msgs[i].tool_calls, 1) + UsedBudget(msgs, i + 1)

\* The lists of calls one response may carry: any list within what is left
\* of CallBudget; once the budget is used up, the single ProbeCall (so that a
\* model that asks for an action in every response stays possible).
CallLists(msgs) ==
    LET left == CallBudget - UsedBudget(msgs, 1) IN
    IF left <= 0 THEN { <<ProbeCall>> }
    ELSE { c \in UNION { [1..k -> CallKinds] : k \in 1..left } :
             ListCost(c, 1) <= left }

\* The responses that carry tool calls, as text and calls: every list of
\* calls without text, and the single ProbeCall with each text.
ToolCallResponses(msgs) ==
    { r \in [text : ToolCallTexts, calls : CallLists(msgs)] :
        r.text = "" \/ r.calls = <<ProbeCall>> }

\* The ids of a response's tool calls: fresh, in request order.
WithIds(calls, base) ==
    [i \in 1..Len(calls) |->
        [name |-> calls[i].name, arg |-> calls[i].arg, id |-> base + i]]

(***************************************************************************)
(* The tool registry and tool_node.                                        *)
(***************************************************************************)
\* What the cluster and the knowledge store answer during one run of
\* tool_node: both up, or both down.
LoopShellOutcomes ==
    { [kind |-> "exit", returncode |-> 0,
       stdout |-> <<"NAME READY STATUS", "web-0 1/1 Running">>, stderr |-> "",
       store |-> "ok"],
      [kind |-> "exit", returncode |-> 1, stdout |-> <<>>,
       stderr |-> "Error from server (NotFound)",
       store |-> "unavailable"] }

\* read_rag_docs(query), as far as the loop sees it: the rendered context,
\* or the fallback text of the except branch.
read_rag_docs(query, store) ==
    IF store = "ok"
    THEN <<"Relevant Documentation:", "[1] " \o query>>
    ELSE <<"Knowledge base unavailable", "general troubleshooting steps">>

\* system_voice_alert(message)
system_voice_alert(message) == <<"Voice alert sent: " \o message>>

\* tools[tool_name].invoke(tool_args) for a registered tool called with its
\* first argument: the returned text, the executor call it made (if any), and
\* whether invoke raised (describe_resource lacks its second required
\* argument, so its argument validation raises).
InvokeTool(name, arg, allow, dry, outcome) ==
    LET viaExecutor(call) ==
            [raised |-> FALSE, text |-> call.result.text, exec |-> <<Record(name, call)>>]
    IN
    CASE name = "execute_k8s_command" ->
           viaExecutor(execute_k8s_command(arg, allow, dry, outcome))
      [] name = "get_pod_status" ->
           viaExecutor(get_pod_status(arg, "", allow, dry, outcome))
      [] name = "read_pod_logs" ->
           viaExecutor(read_pod_logs(arg, "default", 50, "", allow, dry, outcome))
      [] name = "read_rag_docs" ->
           [raised |-> FALSE, text |-> read_rag_docs(arg, outcome.store), exec |-> <<>>]
      [] name = "system_voice_alert" ->
           [raised |-> FALSE, text |-> system_voice_alert(arg), exec |-> <<>>]
      [] OTHER ->
           [raised |-> TRUE, text |-> <<"ValidationError: resource_name">>, exec |-> <<>>]

\* InvokeTool on the calls the model can request, tabulated: the string
\* search of the gate is then evaluated once for each entry.
InvokeTable ==
    [k \in CallKinds, allow \in BOOLEAN, dry \in BOOLEAN, outcome \in LoopShellOutcomes |->
        InvokeTool(k.name, k.arg, allow, dry, outcome)]

\* A plausible slip: the branch for an unknown tool logs the error but appends
\* no ToolMessage.
RunToolCall_unknown_without_turn(st, call, allow, dry, outcome) ==
    IF call.name \in ToolRegistry
    THEN LET r == InvokeTable[[name |-> call.name, arg |-> call.arg],
                              allow, dry, outcome] IN
         IF r.raised
         THEN LET error_msg == "Tool " \o call.name \o " failed: " \o r.text[1] IN
              [st EXCEPT !.error_log = Append(@, error_msg),
                         !.messages = Append(@, ToolMessage(<<"ERROR: " \o error_msg>>,
                                                            call.id))]
         ELSE [st EXCEPT !.last_tool_output = r.text,
                         !.messages = Append(@, ToolMessage(r.text, call.id)),
                         !.knowledge_context =
                             IF call.name = "read_rag_docs"
                             THEN Append(@, [query |-> call.arg, content |-> r.text])
                             ELSE @,
                         !.exec_log = @ \o r.exec]
    ELSE [st EXCEPT !.error_log = Append(@, "Tool " \o call.name \o " not found")]

\* A plausible slip: the knowledge context is stored for every tool that
\* returned, the test of the tool name being left out.
RunToolCall_context_for_every_tool(st, call, allow, dry, outcome) ==
    IF call.name \in ToolRegistry
    THEN LET r == InvokeTable[[name |-> call.name, arg |-> call.arg],
                              allow, dry, outcome] IN
         IF r.raised
         THEN LET error_msg == "Tool " \o call.name \o " failed: " \o r.text[1] IN
              [st EXCEPT !.error_log = Append(@, error_msg),
                         !.messages = Append(@, ToolMessage(<<"ERROR: " \o error_msg>>,
                                                            call.id))]
         ELSE [st EXCEPT !.last_tool_output = r.text,
                         !.messages = Append(@, ToolMessage(r.text, call.id)),
                         !.knowledge_context =
                             Append(@, [query |-> call.arg, content |-> r.text]),
                         !.exec_log = @ \o r.exec]
    ELSE LET error_msg == "Tool " \o call.name \o " not found" IN
         [st EXCEPT !.error_log = Append(@, error_msg),
                    !.messages = Append(@, ToolMessage(<<"ERROR: " \o error_msg>>,
                                                       call.id))]

\* The body of tool_node's for loop for one tool call, on the fields of the
\* state it touches (st) and the executor's log.
RunToolCall(st, call, allow, dry, outcome) ==
    IF call.name \in ToolRegistry
    THEN LET r == InvokeTable[[name |-> call.name, arg |-> call.arg],
                              allow, dry, outcome] IN
         IF r.raised
         THEN LET error_msg == "Tool " \o call.name \o " failed: " \o r.text[1] IN
              [st EXCEPT !.error_log = Append(@, error_msg),
                         !.messages = Append(@, ToolMessage(<<"ERROR: " \o error_msg>>,
                                                            call.id))]
         ELSE [st EXCEPT !.last_tool_output = r.text,
                         !.messages = Append(@, ToolMessage(r.text, call.id)),
                         !.knowledge_context =
                             IF call.name = "read_rag_docs"
                             THEN Append(@, [query |-> call.arg, content |-> r.text])
                             ELSE @,
                         !.exec_log = @ \o r.exec]
    ELSE LET error_msg == "Tool " \o call.name \o " not found" IN
         [st EXCEPT !.error_log = Append(@, error_msg),
                    !.messages = Append(@, ToolMessage(<<"ERROR: " \o error_msg>>,
                                                       call.id))]

\* A plausible slip: the loop is left at the first call that logged an error.
RECURSIVE RunToolCalls_abort_on_error(_, _, _, _, _, _)
RunToolCalls_abort_on_error(st, calls, i, allow, dry, outcome) ==
    IF i > Len(calls) THEN st
    ELSE LET next == RunToolCall(st, calls[i], allow, dry, outcome) IN
         IF Len(next.error_log) > Len(st.error_log) THEN next
         ELSE RunToolCalls_abort_on_error(next, calls, i + 1, allow, dry, outcome)

RECURSIVE RunToolCalls(_, _, _, _, _, _)
RunToolCalls(st, calls, i, allow, dry, outcome) ==
    IF i > Len(calls) THEN st
    ELSE RunToolCalls(RunToolCall(st, calls[i], allow, dry, outcome),
                      calls, i + 1, allow, dry, outcome)

\* tool_node(state)
tool_node(st, allow, dry, outcome) ==
    LET last_message == st.messages[Len(st.messages)] IN
    IF last_message.tool_calls = <<>> THEN st
    ELSE RunToolCalls(st, last_message.tool_calls, 1, allow, dry, outcome)

(***************************************************************************)
(* agent_node.                                                             *)
(***************************************************************************)
\* A plausible slip: the keyword check is not nested under `if not
\* response.tool_calls`.
agent_node_ok_keyword_only(st, response) ==
    [st EXCEPT !.messages = Append(@, response),
               !.iteration_count = @ + 1,
               !.task_complete =
                   IF HasCompletionKeyword(response.content[1]) THEN TRUE ELSE @]

\* agent_node(state) when llm_with_tools.invoke returns `response`
agent_node_ok(st, response) ==
    [st EXCEPT !.messages = Append(@, response),
               !.iteration_count = @ + 1,
               !.task_complete =
                   IF response.tool_calls = <<>>
                      /\ HasCompletionKeyword(response.content[1])
                   THEN TRUE ELSE @]

\* A plausible slip: the except branch assigns a new list holding the apology
\* instead of appending to the history.
agent_node_failed_new_history(st, e) ==
    [st EXCEPT !.error_log = Append(@, "Agent reasoning failed: " \o e),
               !.messages = <<AIMessage(
                   "I encountered an error while thinking: " \o e
                   \o ". Let me try a different approach.", <<>>)>>]

\* agent_node(state) when llm_with_tools.invoke raises
agent_node_failed(st, e) ==
    [st EXCEPT !.error_log = Append(@, "Agent reasoning failed: " \o e),
               !.messages = Append(@, AIMessage(
                   "I encountered an error while thinking: " \o e
                   \o ". Let me try a different approach.", <<>>))]

LoopState ==
    [messages |-> messages, current_task |-> current_task, error_log |-> error_log,
     iteration_count |-> iteration_count, task_complete |-> task_complete,
     last_tool_output |-> last_tool_output, knowledge_context |-> knowledge_context,
     exec_log |-> exec_log]

SetLoopState(st) ==
    /\ messages' = st.messages
    /\ current_task' = st.current_task
    /\ error_log' = st.error_log
    /\ iteration_count' = st.iteration_count
    /\ task_complete' = st.task_complete
    /\ last_tool_output' = st.last_tool_output
    /\ knowledge_context' = st.knowledge_context
    /\ exec_log' = st.exec_log

\* The entries of knowledge_context that agent_node puts into the prompt:
\* state["knowledge_context"][:2]
PromptContext(entries) ==
    SubSeq(entries, 1, IF Len(entries) < 2 THEN Len(entries) ELSE 2)

\* What agent_node saw when it called the model, and the knowledge context
\* it passed along.
ThinkRecord(failed) ==
    [iteration_count |-> iteration_count, errors |-> Len(error_log),
     task_complete |-> task_complete, max_iterations |-> max_iterations,
     failed |-> failed,
     knowledge_context |-> knowledge_context,
     context |-> PromptContext(knowledge_context)]

Route(st) ==
    AfterAgent(should_continue_routing(st.task_complete, st.iteration_count,
                                       st.error_log, max_iterations, st.messages))

\* The model never stops the loop itself; the guard only keeps the state
\* space finite when the routing is changed so that the loop never ends.
ThinkGuard == pc = "agent" /\ iteration_count < MaxIterBound

\* batch_mode(query): the text shown to the caller, taken from the final
\* state that run_agent returns.
batch_mode_answer(msgs) ==
    IF msgs = <<>> THEN <<>> ELSE msgs[Len(msgs)].content

\* THINK with an answer from the model, then the conditional edge.
AgentNodeResponds ==
    /\ ThinkGuard
    /\ \E response \in
           { AIMessage(t, <<>>) : t \in ResponseTexts }
           \cup { AIMessage(r.text, WithIds(r.calls, TotalCalls(messages))) :
                    r \in ToolCallResponses(messages) } :
         \E st \in { agent_node_ok(LoopState, response) } :
            /\ SetLoopState(st)
            /\ pc' = Route(st)
    /\ think_log' = Append(think_log, ThinkRecord(FALSE))
    /\ UNCHANGED <<settingsVars, max_iterations, ragVars, runVars>>

\* THINK with a failing inference call, then the conditional edge.
AgentNodeFails ==
    /\ ThinkGuard
    /\ \E st \in { agent_node_failed(LoopState, "connection refused") } :
         /\ SetLoopState(st)
         /\ pc' = Route(st)
    /\ think_log' = Append(think_log, ThinkRecord(TRUE))
    /\ UNCHANGED <<settingsVars, max_iterations, ragVars, runVars>>

\* ACT, then the edge back to the agent node.
ToolNode ==
    /\ pc = "tools"
    /\ \E outcome \in LoopShellOutcomes :
         \E st \in { tool_node(LoopState, allow_destructive_commands,
                                dry_run_mode, outcome) } :
            SetLoopState(st)
    /\ pc' = AfterTools
    /\ UNCHANGED <<settingsVars, max_iterations, think_log, ragVars, runVars>>

\* run_agent(user_input): the state handed to the compiled graph, whose entry
\* point is the agent node.
Init ==
    /\ allow_destructive_commands \in BOOLEAN
    /\ dry_run_mode = FALSE
    /\ exec_log = <<>>
    /\ max_iterations \in 0..MaxIterBound
    /\ \E user_input \in UserInputs :
         LET st == create_initial_state(user_input) IN
         /\ messages = st.messages
         /\ current_task = st.current_task
         /\ error_log = st.error_log
         /\ iteration_count = st.iteration_count
         /\ task_complete = st.task_complete
         /\ last_tool_output = st.last_tool_output
         /\ knowledge_context = st.knowledge_context
    /\ pc = "agent"
    /\ think_log = <<>>
    /\ RagIdle
    /\ RunsIdle

Next == AgentNodeResponds \/ AgentNodeFails \/ ToolNode

Spec == Init /\ [][Next]_vars

\* A node that has been entered finishes once its external calls return: the
\* tool node returns, and the agent node returns with the model's answer or,
\* failing that, through its except branch.  Both agent actions are enabled
\* exactly when ThinkGuard holds and both leave pc = "agent", so weak fairness
\* of the except branch says no more than that the agent node does not stay
\* pending for ever; it forces no inference failure on a run that goes on.
FairSpec == Spec /\ WF_vars(AgentNodeFails) /\ WF_vars(ToolNode)

(***************************************************************************)
(* The document retriever: src/rag/retriever.py.                           *)
(*                                                                         *)
(* Distances and min_relevance are multiples of 1/Scale, held as integers; *)
(* a relevance score is the fraction num/den.  The values of min_relevance *)
(* (0, 1/2, 1) and the thresholds 1 - min_relevance are exact as floats,   *)
(* so the comparison of fractions decides as the float comparison does.    *)
(***************************************************************************)
Scale == 10
MaxTopK == 3

\* The distances the store can report, in units of 1/Scale: 0, 0.1, 1, 2.5.
Distances == { 0, 1, 10, 25 }

MinRelevances == { 0, 5, 10 }

DocContents ==
    <<"ImagePullBackOff: check the image name and the pull secret",
      "CrashLoopBackOff: read the logs of the previous container",
      "OOMKilled: raise the memory limit",
      "Pending: look at node resources and taints">>

\* A plausible slip: 1.0 + distance, the division left out.
relevance_score_undivided(distance) == [num |-> Scale + distance, den |-> Scale]

\* relevance_score = 1.0 / (1.0 + distance)
relevance_score(distance) == [num |-> Scale, den |-> Scale + distance]

\* A plausible slip: min_relevance is compared with the score directly.
PassesThreshold_at_least_min(relevance, minRelevance) ==
    relevance.num * Scale >= minRelevance * relevance.den

\* relevance_score >= (1 - min_relevance), on fractions with den > 0
PassesThreshold(relevance, minRelevance) ==
    relevance.num * Scale >= (Scale - minRelevance) * relevance.den

\* A plausible slip: min_relevance is used as the threshold itself.
RetrieveLoop_plain_threshold(results, i, minRelevance, acc) ==
    LET relevance == relevance_score(results[i].distance) IN
    IF relevance.num * Scale >= minRelevance * relevance.den
    THEN Append(acc, [content |-> results[i].content,
                      metadata |-> results[i].metadata,
                      relevance |-> relevance,
                      distance |-> results[i].distance])
    ELSE acc

\* The body of the for loop of retrieve for the i-th triple of the zip.
RetrieveLoop(results, i, minRelevance, acc) ==
    LET relevance == relevance_score(results[i].distance) IN
    IF PassesThreshold(relevance, minRelevance)
    THEN Append(acc, [content |-> results[i].content,
                      metadata |-> results[i].metadata,
                      relevance |-> relevance,
                      distance |-> results[i].distance])
    ELSE acc

RECURSIVE RetrieveFrom(_, _, _, _)
RetrieveFrom(results, i, minRelevance, acc) ==
    IF i > Len(results) THEN acc
    ELSE RetrieveFrom(results, i + 1, minRelevance,
                      RetrieveLoop(results, i, minRelevance, acc))

\* DocumentRetriever.retrieve(query, top_k, min_relevance), given what
\* self.vector_store.query(query, n_results=top_k) returned
retrieve(results, minRelevance) == RetrieveFrom(results, 1, minRelevance, <<>>)

\* What the store can return for n_results = k: at most k entries, nearest
\* first.  The i-th entry holds the i-th document.
StoreResults(k) ==
    { r \in UNION { [1..n -> Distances] : n \in 0..k } :
        \A i \in 1..(Len(r) - 1) : r[i] <= r[i + 1] }

\* The metadata of the i-th document; the second one carries no source.
DocMetadata(i) ==
    IF i = 2 THEN [topic |-> "CrashLoopBackOff"]
    ELSE [topic |-> "Troubleshooting", source |-> "k8s-handbook"]

StoreEntry(i, distance) ==
    [content |-> DocContents[i], metadata |-> DocMetadata(i), distance |-> distance]

(***************************************************************************)
(* format_context and the knowledge-search tool read_rag_docs.  Texts are  *)
(* strings with "\n" for the line break; "[::]" stands for the four        *)
(* characters that open the header line in the source.                     *)
(***************************************************************************)
NoDocumentsText == "No relevant documentation found."

ContextHeader == "[::] Relevant Documentation:\n"

\* doc['metadata'].get(key, default)
MetadataGet(metadata, key, default) ==
    IF key \in DOMAIN metadata THEN metadata[key] ELSE default

\* doc_text of the i-th document
DocText(docs, i) ==
    "\n" \o ToString(i) \o ". " \o MetadataGet(docs[i].metadata, "topic", "General")
    \o " (Source: " \o MetadataGet(docs[i].metadata, "source", "Unknown") \o ")\n"
    \o docs[i].content \o "\n"

\* The marker appended when the i-th document does not fit.
TruncationMarker(docs, i) ==
    "\n... (truncated, " \o ToString(Len(docs) - i + 1) \o " more results)"

\* A plausible slip: continue for break, so a document that does not fit is
\* skipped and the loop goes on to the next.
RECURSIVE FormatFrom_skips_unfit(_, _, _, _, _)
FormatFrom_skips_unfit(docs, i, maxLength, parts, current_length) ==
    IF i > Len(docs) THEN parts
    ELSE IF current_length + Len(DocText(docs, i)) > maxLength
         THEN FormatFrom_skips_unfit(docs, i + 1, maxLength,
                                     parts \o TruncationMarker(docs, i), current_length)
         ELSE FormatFrom_skips_unfit(docs, i + 1, maxLength, parts \o DocText(docs, i),
                                     current_length + Len(DocText(docs, i)))

\* The for loop of format_context from the i-th document on: `parts` is the
\* join of context_parts.
RECURSIVE FormatFrom(_, _, _, _, _)
FormatFrom(docs, i, maxLength, parts, current_length) ==
    IF i > Len(docs) THEN parts
    ELSE IF current_length + Len(DocText(docs, i)) > maxLength
         THEN parts \o TruncationMarker(docs, i)
         ELSE FormatFrom(docs, i + 1, maxLength, parts \o DocText(docs, i),
                         current_length + Len(DocText(docs, i)))

\* DocumentRetriever.format_context(documents, max_length)
format_context(docs, maxLength) ==
    IF docs = <<>> THEN NoDocumentsText
    ELSE FormatFrom(docs, 1, maxLength, ContextHeader, Len(ContextHeader))

MaxLengths == { 10, 29, 130, 220, 1500 }

\* What read_rag_docs returns when retrieve gave no document.
NoDocsReply == "[::] No relevant documentation found. Try rephrasing your query."

\* What read_rag_docs returns from its except branch.
FallbackChecklist(e) ==
    "[::] Documentation search unavailable: " \o e \o "\n\n"
    \o "Tip: Run the ingestion script first:\n"
    \o "   python scripts/ingest_docs.py\n\n"
    \o "For now, here are general troubleshooting steps:\n"
    \o "1. Check pod status: kubectl get pods\n"
    \o "2. Describe the pod: kubectl describe pod <pod-name>\n"
    \o "3. Check logs: kubectl logs <pod-name>\n"
    \o "4. Look for common issues: ImagePullBackOff, CrashLoopBackOff, Pending\n"

\* The body of read_rag_docs: get_retriever() raises when the store cannot be
\* opened; otherwise retrieve(query, top_k=3) and format_context(documents,
\* max_length=1500).  Gives the documents retrieved and the returned text.
read_rag_docs_body(status, results) ==
    IF status = "unavailable"
    THEN [documents |-> <<>>, text |-> FallbackChecklist("ChromaDB is not reachable")]
    ELSE LET docs == retrieve(results, 0) IN
         [documents |-> docs,
          text |-> IF docs = <<>> THEN NoDocsReply ELSE format_context(docs, 1500)]

InitRag ==
    /\ allow_destructive_commands = FALSE
    /\ dry_run_mode = FALSE
    /\ exec_log = <<>>
    /\ pc = "retrieve"
    /\ max_iterations = 0
    /\ current_task = ""
    /\ messages = <<>>
    /\ error_log = <<>>
    /\ iteration_count = 0
    /\ task_complete = FALSE
    /\ last_tool_output = <<>>
    /\ knowledge_context = <<>>
    /\ think_log = <<>>
    /\ top_k \in 1..MaxTopK
    /\ min_relevance \in MinRelevances
    /\ store_status \in {"ok", "query_failed", "unavailable"}
    /\ IF store_status = "ok"
       THEN \E r \in StoreResults(top_k) :
               store_results = [i \in 1..Len(r) |-> StoreEntry(i, r[i])]
       ELSE store_results = <<>>
    /\ documents = <<>>
    /\ max_length = 0
    /\ context = ""
    /\ RunsIdle

\* retriever.retrieve(query, top_k, min_relevance), on a retriever that could
\* be constructed.  When collection.query raised, VectorStore.query returned
\* the empty lists, which is what store_results then holds.
Retrieve ==
    /\ pc = "retrieve"
    /\ store_status # "unavailable"
    /\ documents' = retrieve(store_results, min_relevance)
    /\ pc' = "retrieved"
    /\ UNCHANGED <<settingsVars, exec_log, agentVarsButPc, top_k, min_relevance,
                   store_results, store_status, max_length, context, runVars>>

\* retriever.format_context(documents, max_length) on what retrieve returned
FormatContext ==
    /\ pc = "retrieved"
    /\ \E m \in MaxLengths :
         /\ max_length' = m
         /\ context' = format_context(documents, m)
    /\ pc' = "formatted"
    /\ UNCHANGED <<settingsVars, exec_log, agentVarsButPc, top_k, min_relevance,
                   store_results, store_status, documents, runVars>>

\* read_rag_docs(query): the tool as a whole; it asks for top_k = 3 and leaves
\* min_relevance at its default 0.0.
ReadRagDocs ==
    /\ pc = "retrieve"
    /\ top_k = 3
    /\ min_relevance = 0
    /\ \E r \in { read_rag_docs_body(store_status, store_results) } :
         /\ documents' = r.documents
         /\ context' = r.text
    /\ max_length' = 1500
    /\ pc' = "tool_done"
    /\ UNCHANGED <<settingsVars, exec_log, agentVarsButPc, top_k, min_relevance,
                   store_results, store_status, runVars>>

NextRag == Retrieve \/ FormatContext \/ ReadRagDocs

SpecRag == InitRag /\ [][NextRag]_vars

(***************************************************************************)
(* should_continue called on its own, as the tests of src/tests call it:   *)
(* on a state made by create_initial_state whose fields were then set.     *)
(***************************************************************************)
ErrorLogs ==
    { [i \in 1..n |-> "error" \o ToString(i)] : n \in 0..(MaxConsecutiveErrors + 1) }

InitGuard ==
    /\ allow_destructive_commands = FALSE
    /\ dry_run_mode = FALSE
    /\ exec_log = <<>>
    /\ pc = "guard"
    /\ max_iterations \in 0..MaxIterBound
    /\ \E user_input \in UserInputs :
         LET st == create_initial_state(user_input) IN
         /\ messages = st.messages
         /\ current_task = st.current_task
         /\ last_tool_output = st.last_tool_output
         /\ knowledge_context = st.knowledge_context
    /\ error_log \in ErrorLogs
    /\ iteration_count \in 0..(MaxIterBound + 1)
    /\ task_complete \in BOOLEAN
    /\ think_log = <<>>
    /\ RagIdle
    /\ RunsIdle

\* should_continue(state, max_iterations): the value returned is kept in pc.
ShouldContinue ==
    /\ pc = "guard"
    /\ pc' = IF should_continue(task_complete, iteration_count, error_log, max_iterations)
             THEN "continue" ELSE "stop"
    /\ UNCHANGED <<settingsVars, exec_log, agentVarsButPc, ragVars, runVars>>

NextGuard == ShouldContinue

SpecGuard == InitGuard /\ [][NextGuard]_vars

(***************************************************************************)
(* Two runs side by side: run_agent called for two requests at the same    *)
(* time.  The lists of a state are objects that the nodes change in place, *)
(* so a state holds references to them, and `heap` holds the objects.      *)
(***************************************************************************)
Runs == { 1, 2 }

\* MAX_ITERATIONS of the two runs.
RunMaxIter == 2

RunInputs == <<"Check pod status", "Why is web-0 pending">>

\* A plausible slip: error_log is one list made when the module was loaded,
\* the same object in every state.
create_initial_state_refs_shared_log(user_input, base) ==
    LET st == create_initial_state(user_input) IN
    [state |-> [st EXCEPT !.messages = base + 1,
                          !.error_log = 2,
                          !.knowledge_context = base + 3],
     cells |-> { <<base + 1, st.messages>>, <<2, st.error_log>>,
                 <<base + 3, st.knowledge_context>> }]

\* create_initial_state(user_input) with the identity of the lists it makes:
\* each call evaluates the list displays anew, so the state refers to three
\* new objects, here at the addresses after `base`.
create_initial_state_refs(user_input, base) ==
    LET st == create_initial_state(user_input) IN
    [state |-> [st EXCEPT !.messages = base + 1,
                          !.error_log = base + 2,
                          !.knowledge_context = base + 3],
     cells |-> { <<base + 1, st.messages>>, <<base + 2, st.error_log>>,
                 <<base + 3, st.knowledge_context>> }]

\* The state of a run as the nodes read it: its fields, with the lists they
\* refer to.
RunState(run, h) ==
    [messages |-> h[run.state.messages],
     current_task |-> run.state.current_task,
     error_log |-> h[run.state.error_log],
     iteration_count |-> run.state.iteration_count,
     task_complete |-> run.state.task_complete,
     last_tool_output |-> run.state.last_tool_output,
     knowledge_context |-> h[run.state.knowledge_context],
     exec_log |-> run.exec_log]

\* What a node leaves behind: the lists changed in place, the other fields
\* assigned in the run's own dict.
StoreRunState(r, st, at, answer) ==
    /\ heap' = [heap EXCEPT ![runs[r].state.messages] = st.messages,
                            ![runs[r].state.error_log] = st.error_log,
                            ![runs[r].state.knowledge_context] = st.knowledge_context]
    /\ runs' = [runs EXCEPT ![r] =
                   [state |-> [@.state EXCEPT !.current_task = st.current_task,
                                               !.iteration_count = st.iteration_count,
                                               !.task_complete = st.task_complete,
                                               !.last_tool_output = st.last_tool_output],
                    pc |-> at,
                    exec_log |-> st.exec_log,
                    answers |-> Append(@.answers, answer)]]

\* The conditional edge after the agent node, for a given MAX_ITERATIONS.
RouteAt(st, maxIter) ==
    AfterAgent(should_continue_routing(st.task_complete, st.iteration_count,
                                       st.error_log, maxIter, st.messages))

\* The tool calls the model asks for in the side-by-side runs: the knowledge
\* search, or a tool that is not registered.
RunCallLists ==
    { <<[name |-> "read_rag_docs", arg |-> "ImagePullBackOff causes"]>>,
      <<[name |-> "restart_pod", arg |-> "web-0"]>> }

RunResponses(msgs) ==
    { AIMessage(t, <<>>) : t \in ResponseTexts }
    \cup { AIMessage("", WithIds(c, TotalCalls(msgs))) : c \in RunCallLists }

\* What a collaborator answered to a run: the model's response, the failure
\* of the inference call, or the answer of the cluster and the store.
Answer(kind, response, outcome) ==
    [kind |-> kind, response |-> response, outcome |-> outcome]

otherVars ==
    <<settingsVars, exec_log, pc, agentVarsButPc, ragVars>>

\* THINK of run r with an answer from the model, then the conditional edge.
RunAgentNodeResponds(r) ==
    /\ pc = "runs"
    /\ runs[r].pc = "agent"
    /\ \E response \in RunResponses(heap[runs[r].state.messages]) :
         \E st \in { agent_node_ok(RunState(runs[r], heap), response) } :
            StoreRunState(r, st, RouteAt(st, RunMaxIter),
                          Answer("response", <<response>>, <<>>))
    /\ UNCHANGED otherVars

\* THINK of run r with a failing inference call, then the conditional edge.
RunAgentNodeFails(r) ==
    /\ pc = "runs"
    /\ runs[r].pc = "agent"
    /\ \E st \in { agent_node_failed(RunState(runs[r], heap), "connection refused") } :
         StoreRunState(r, st, RouteAt(st, RunMaxIter), Answer("failure", <<>>, <<>>))
    /\ UNCHANGED otherVars

\* ACT of run r, then the edge back to the agent node.
RunToolNode(r) ==
    /\ pc = "runs"
    /\ runs[r].pc = "tools"
    /\ \E outcome \in LoopShellOutcomes :
         \E st \in { tool_node(RunState(runs[r], heap), allow_destructive_commands,
                                dry_run_mode, outcome) } :
            StoreRunState(r, st, AfterTools, Answer("outcome", <<>>, <<outcome>>))
    /\ UNCHANGED otherVars

\* The caller stops run r: the only means is KeyboardInterrupt, which no
\* node catches (they catch Exception) and which unwinds run_agent up to the
\* handler of interactive_mode.  The state the run had reached is dropped
\* as it is.
KeyboardInterrupt(r) ==
    /\ pc = "runs"
    /\ runs[r].pc \in { "agent", "tools" }
    /\ runs' = [runs EXCEPT ![r].pc = "interrupted"]
    /\ UNCHANGED <<heap, otherVars>>

\* run_agent(user_input) for the two requests.
InitRuns ==
    /\ allow_destructive_commands = FALSE
    /\ dry_run_mode = FALSE
    /\ exec_log = <<>>
    /\ pc = "runs"
    /\ max_iterations = 0
    /\ current_task = ""
    /\ messages = <<>>
    /\ error_log = <<>>
    /\ iteration_count = 0
    /\ task_complete = FALSE
    /\ last_tool_output = <<>>
    /\ knowledge_context = <<>>
    /\ think_log = <<>>
    /\ RagIdle
    /\ LET made == [r \in Runs |-> create_initial_state_refs(RunInputs[r], 3 * (r - 1))]
           cells == UNION { made[r].cells : r \in Runs }
       IN /\ runs = [r \in Runs |->
                        [state |-> made[r].state, pc |-> "agent",
                         exec_log |-> <<>>, answers |-> <<>>]]
          /\ heap = [ref \in { c[1] : c \in cells } |->
                        (CHOOSE c \in cells : c[1] = ref)[2]]

NextRuns ==
    \E r \in Runs :
        \/ RunAgentNodeResponds(r)
        \/ RunAgentNodeFails(r)
        \/ RunToolNode(r)
        \/ KeyboardInterrupt(r)

SpecRuns == InitRuns /\ [][NextRuns]_vars


(***************************************************************************)
(* Properties of the gate and the executor (checked under SpecExec).       *)
(***************************************************************************)
ShellMetacharacters == { "&&", "|", ";", Backtick, "$(" }

HasShellMetacharacter(command) ==
    \E m \in ShellMetacharacters : Contains(command, m)

IsNamespaceDeletion(command) == Contains(Lower(command), "delete namespace")

IsBulkDeletion(command) ==
    Contains(Lower(command), "delete") /\ Contains(Lower(command), "--all")

Calls == { exec_log[i] : i \in 1..Len(exec_log) }

\* C1: a command that contains && | ; a backtick or $( is classified BLOCKED
\* and is never handed to the shell.
C1_MetacharactersBlocked ==
    \A e \in Calls :
        HasShellMetacharacter(e.command) =>
            /\ Classify(e.command, allow_destructive_commands) = "BLOCKED"
            /\ e.handed = <<>>

\* C2: a command that deletes a namespace, or deletes with --all, is
\* classified BLOCKED in any letter case and under either value of
\* allow_destructive_commands.
C2_NamespaceAndBulkDeletionBlocked ==
    \A e \in Calls :
        (IsNamespaceDeletion(e.command) \/ IsBulkDeletion(e.command)) =>
            Classify(e.command, allow_destructive_commands) = "BLOCKED"

\* C3: when the gate classifies a command BLOCKED, the executor returns the
\* blocked failure and hands nothing to the shell.
C3_BlockedNeverExecuted ==
    \A e \in Calls :
        Classify(e.command, allow_destructive_commands) = "BLOCKED" =>
            /\ e.handed = <<>>
            /\ e.result.kind = "blocked"

C3_Witness ==
    \E e \in Calls :
        /\ e.tool = "describe_resource"
        /\ Classify(e.command, allow_destructive_commands) = "BLOCKED"
        /\ e.result.kind = "blocked"

\* C4: every string handed to the shell, with all the flags the tools and the
\* executor appended to it, is a string the gate classifies ALLOWED.
C4_HandedIsAllowed ==
    \A e \in Calls :
        \A i \in 1..Len(e.handed) :
            Classify(e.handed[i], allow_destructive_commands) = "ALLOWED"

C4_Witness ==
    \E e \in Calls :
        /\ e.tool = "read_pod_logs"
        /\ ~allow_destructive_commands
        /\ dry_run_mode
        /\ e.handed # <<>>
        /\ Contains(e.handed[1], " -n default --tail=50 -c sidecar")
        /\ Contains(e.handed[1], " --dry-run=client")

(***************************************************************************)
(* Properties of the control loop (checked under Spec and FairSpec).       *)
(***************************************************************************)
LastMessage == messages[Len(messages)]

\* C5: in every reachable state iteration_count <= max_iterations.
C5_IterationBounded == iteration_count <= max_iterations

\* What the routing does guarantee: the bound holds for a limit of 1 or more.
IterationBoundedFromOne == max_iterations >= 1 => iteration_count <= max_iterations

\* C6: every run eventually reaches the end of the graph, whatever the model
\* and the tools answer.
C6_EventuallyTerminated == <>(pc = "END")

C6_Witness ==
    /\ pc = "END"
    /\ max_iterations >= 2
    /\ iteration_count = max_iterations
    /\ Len(error_log) < MaxConsecutiveErrors
    /\ \A i \in 1..Len(messages) :
          messages[i].role = "assistant" => messages[i].tool_calls # <<>>

\* C7: from a state whose error_log holds MaxConsecutiveErrors entries or
\* more, the step that runs the guard ends the run, and the tool node neither
\* is nor becomes the node to run.
C7_ErrorThresholdEndsRun ==
    [][ Len(error_log) >= MaxConsecutiveErrors =>
          /\ pc # "tools"
          /\ pc' # "tools"
          /\ (pc = "agent" => pc' = "END") ]_vars

C7_Witness ==
    /\ pc = "END"
    /\ Len(error_log) >= MaxConsecutiveErrors
    /\ LastMessage.tool_calls # <<>>
    /\ iteration_count < max_iterations
    /\ ~task_complete

\* C8: the model is never invoked in a state where iteration_count >=
\* max_iterations, or error_log holds MaxConsecutiveErrors entries, or
\* task_complete is true.
C8_GuardBeforeInference ==
    \A i \in 1..Len(think_log) :
        /\ think_log[i].iteration_count < think_log[i].max_iterations
        /\ think_log[i].errors < MaxConsecutiveErrors
        /\ ~think_log[i].task_complete

\* C9: after a failed inference call that leaves error_log below the
\* threshold (and the other guard conditions as they were), the loop goes on
\* with a further THINK step.
C9_InferenceFailureContinues ==
    [][ ( /\ pc = "agent"
          /\ Len(think_log') = Len(think_log) + 1
          /\ think_log'[Len(think_log')].failed
          /\ should_continue(task_complete', iteration_count', error_log',
                             max_iterations) )
        => pc' = "agent" ]_vars

\* C10: a THINK step whose response carries no tool call ends the run, and
\* nothing runs after the end.
C10_NoActionEndsRun ==
    [][ /\ (pc = "agent" /\ messages'[Len(messages')].tool_calls = <<>>) => pc' = "END"
        /\ pc = "END" => pc' = "END" ]_vars

C10_Witness ==
    /\ pc = "END"
    /\ LastMessage.role = "assistant"
    /\ LastMessage.tool_calls = <<>>
    /\ ~think_log[Len(think_log)].failed
    /\ ~task_complete
    /\ iteration_count < max_iterations
    /\ error_log = <<>>

\* Whether a text the model can answer contains a completion keyword, in any
\* letter case.
MentionsCompletion ==
    [t \in ResponseTexts \cup ToolCallTexts |->
        \E k \in {"complete", "done", "finished", "resolved"} : Contains(Lower(t), k)]

\* C11: a THINK step that got a response from the model leaves task_complete
\* true exactly when the response carries no tool call and its text contains
\* one of "complete", "done", "finished", "resolved" in any letter case; a
\* response with a tool call never sets it, whatever its text.
C11_TaskCompleteOnKeyword ==
    [][ ( /\ pc = "agent"
          /\ Len(think_log') = Len(think_log) + 1
          /\ ~think_log'[Len(think_log')].failed )
        => task_complete' =
              ( /\ messages'[Len(messages')].tool_calls = <<>>
                /\ MentionsCompletion[messages'[Len(messages')].content[1]] ) ]_vars

C11_Witness ==
    /\ pc = "END"
    /\ task_complete
    /\ Contains(LastMessage.content[1], "RESOLVED")
    /\ \E i \in 1..Len(messages) :
          /\ messages[i].tool_calls # <<>>
          /\ Contains(messages[i].content[1], "Done")

\* C12: task_complete never goes from true back to false, and from a state
\* where it is true neither the agent node nor the tool node runs: no node is
\* pending and no step changes anything.
C12_TaskCompleteIsTerminal ==
    [][ task_complete =>
          /\ task_complete'
          /\ pc = "END"
          /\ UNCHANGED vars ]_vars

C12_Witness ==
    /\ task_complete
    /\ pc = "END"
    /\ Len(think_log) >= 2
    /\ exec_log # <<>>

\* The entries of error_log written by tool_node ("Tool ... not found",
\* "Tool ... failed: ...").
ToolErrors == { j \in 1..Len(error_log) : SubSeq(error_log[j], 1, 5) = "Tool " }

\* The executor calls of the run that returned a failure.
FailedCalls == { i \in 1..Len(exec_log) : exec_log[i].result.kind # "ok" }

\* C13: every ACT step whose observation is a failure (blocked command,
\* non-zero exit, timeout, unknown tool) has left an entry in error_log: there
\* are at least as many tool entries in error_log as failed executor calls.
C13_FailureObservationLogged == Cardinality(ToolErrors) >= Cardinality(FailedCalls)

\* The tool messages of msgs that answer the tool call `id`.
ObservationsOf(msgs, id) ==
    { j \in 1..Len(msgs) : msgs[j].role = "tool" /\ msgs[j].tool_call_id = id }

UnknownCalls(calls) == { i \in 1..Len(calls) : calls[i].name \notin ToolRegistry }

\* C15: for every call of an unregistered tool, the tool node appends the
\* ToolMessage "ERROR: Tool <name> not found" and the error_log entry "Tool
\* <name> not found" and invokes nothing (the executor is called at most once
\* for each registered call, and not at all when every call is unknown); the
\* agent node runs next.
C15_UnknownToolIsNotFatal ==
    [][ pc = "tools" =>
          LET calls == LastMessage.tool_calls
              unknown == UnknownCalls(calls)
              added == SubSeq(error_log', Len(error_log) + 1, Len(error_log'))
          IN
          /\ pc' = "agent"
          /\ \A i \in unknown :
                /\ messages'[Len(messages) + i].role = "tool"
                /\ messages'[Len(messages) + i].content
                      = <<"ERROR: Tool " \o calls[i].name \o " not found">>
                /\ \E j \in 1..Len(added) :
                      added[j] = "Tool " \o calls[i].name \o " not found"
          /\ Len(added) >= Cardinality(unknown)
          /\ Len(exec_log') - Len(exec_log) <= Len(calls) - Cardinality(unknown)
          /\ (Cardinality(unknown) = Len(calls) =>
                /\ exec_log' = exec_log
                /\ last_tool_output' = last_tool_output
                /\ knowledge_context' = knowledge_context) ]_vars

C15_Witness ==
    /\ Len(think_log) >= 2
    /\ exec_log = <<>>
    /\ error_log = <<"Tool restart_pod not found">>
    /\ messages[3].content = <<"ERROR: Tool restart_pod not found">>

(***************************************************************************)
(* Further properties of the gate and the executor (checked under          *)
(* SpecExec).                                                              *)
(***************************************************************************)
\* Whether the command is `kubectl <verb> ...`, in any letter case.
HasVerb(command, verb) ==
    /\ Len(command) >= Len(verb) + 9
    /\ SubSeq(Lower(command), 1, Len(verb) + 9) = "kubectl " \o verb \o " "

SafeVerbs == { "get", "describe", "logs", "top", "rollout restart", "scale", "annotate" }

DestructiveVerbs == { "delete", "drain", "cordon", "taint" }

\* C16: a command with a get, describe, logs, top, rollout restart, scale or
\* annotate verb and no shell metacharacter is classified ALLOWED, whatever
\* its arguments.
C16_SafeVerbsAllowed ==
    \A e \in Calls :
        ( /\ \E v \in SafeVerbs : HasVerb(e.command, v)
          /\ ~HasShellMetacharacter(e.command) )
        => Classify(e.command, allow_destructive_commands) = "ALLOWED"

\* C17: with allow_destructive_commands off a command with a delete, drain,
\* cordon or taint verb is classified BLOCKED; with it on, such a command is
\* ALLOWED when it neither deletes a namespace, nor deletes with --all, nor
\* contains a shell metacharacter.
C17_DestructiveVerbsFollowOverride ==
    \A e \in Calls :
        (\E v \in DestructiveVerbs : HasVerb(e.command, v)) =>
            /\ ~allow_destructive_commands =>
                  Classify(e.command, allow_destructive_commands) = "BLOCKED"
            /\ ( /\ allow_destructive_commands
                 /\ ~IsNamespaceDeletion(e.command)
                 /\ ~IsBulkDeletion(e.command)
                 /\ ~HasShellMetacharacter(e.command) )
               => Classify(e.command, allow_destructive_commands) = "ALLOWED"

C17_Witness ==
    \E e \in Calls :
        /\ HasVerb(e.command, "taint")
        /\ allow_destructive_commands
        /\ e.handed # <<>>
        /\ e.result.kind = "ok"

\* C18: the executor returns a value on every path: the blocked failure when
\* the gate blocks, the failure with stderr on a non-zero exit, the timeout
\* failure when the timeout expires, a failure value on any other fault, and
\* the formatted output otherwise; no call ends by raising.
C18_ExecutorAlwaysReturns ==
    \A e \in Calls :
        /\ e.result.kind \in {"ok", "blocked", "failed", "timeout", "unexpected"}
        /\ e.result.text # <<>>
        /\ e.shell = <<>> <=> e.result.kind = "blocked"
        /\ Classify(e.command, allow_destructive_commands) = "BLOCKED"
              => e.result.kind = "blocked"
        /\ \A i \in 1..Len(e.shell) :
              LET o == e.shell[i] IN
              /\ o.kind = "timeout" => e.result.kind = "timeout"
              /\ o.kind = "oserror" => e.result.kind = "unexpected"
              /\ (o.kind = "exit" /\ o.returncode # 0) =>
                    /\ e.result.kind = "failed"
                    /\ o.stderr # "" => e.result.text = <<"X Error: " \o o.stderr>>
              /\ (o.kind = "exit" /\ o.returncode = 0) => e.result.kind = "ok"

C18_Witness ==
    \E e \in Calls :
        /\ e.tool = "execute_k8s_command"
        /\ e.shell # <<>>
        /\ e.shell[1].kind = "oserror"
        /\ e.result.kind = "unexpected"

(***************************************************************************)
(* Properties of the retriever (checked under SpecRag).                    *)
(***************************************************************************)
\* C19: with min_relevance = 0.0 retrieve filters nothing out: every entry
\* the store returned, one at distance 0.1 included, is in the result.
C19_ZeroMinRelevanceKeepsAll ==
    (pc = "retrieved" /\ min_relevance = 0) =>
        /\ Len(documents) = Len(store_results)
        /\ \A i \in 1..Len(store_results) :
              documents[i].content = store_results[i].content

\* The entries of the store's answer with 1/(1+distance) >= 1 - min_relevance.
KeptEntries ==
    { i \in 1..Len(store_results) :
        Scale * Scale >= (Scale - min_relevance) * (Scale + store_results[i].distance) }

\* The j-th of them, in the store's order.
NthKept(j) == CHOOSE i \in KeptEntries : Cardinality({ k \in KeptEntries : k <= i }) = j

C21_StoreFailureGivesChecklist ==
    (pc = "tool_done" /\ store_status # "ok") =>
        /\ documents = <<>>
        /\ Contains(context, "general troubleshooting steps")
        /\ Contains(context, "1. Check pod status: kubectl get pods")

\* The text of format_context without its truncation marker, if it ends
\* with one.
WithoutMarker(text, docs) ==
    LET cut == { n \in 0..Len(text) :
                   \E i \in 1..Len(docs) :
                      /\ n + Len(TruncationMarker(docs, i)) = Len(text)
                      /\ SubSeq(text, n + 1, Len(text)) = TruncationMarker(docs, i) }
    IN IF cut = {} THEN text ELSE SubSeq(text, 1, CHOOSE n \in cut : TRUE)

\* C22: the text format_context returns is at most max_length characters
\* long, the truncation marker not counted, for every document list and every
\* max_length.
C22_ContextWithinMaxLength ==
    pc = "formatted" => Len(WithoutMarker(context, documents)) <= max_length

(***************************************************************************)
(* Further properties of the control loop and the executor.                *)
(***************************************************************************)
\* C26: the state a run starts from has one message, the user's request
\* with role user, current_task equal to the request, iteration_count 0,
\* task_complete false, and an empty error_log, last_tool_output and
\* knowledge_context.
C26_InitialState ==
    think_log = <<>> =>
        /\ Len(messages) = 1
        /\ messages[1].role = "user"
        /\ messages[1].content = <<current_task>>
        /\ current_task \in UserInputs
        /\ iteration_count = 0
        /\ task_complete = FALSE
        /\ error_log = <<>>
        /\ last_tool_output = <<>>
        /\ knowledge_context = <<>>

C26_Witness ==
    /\ think_log = <<>>
    /\ pc = "agent"
    /\ current_task = "Check pod status"
    /\ max_iterations = MaxIterBound

\* The lines of an output between its leading and trailing blank lines.
ContentLines(output) ==
    LET filled == { i \in 1..Len(output) : output[i] # "" } IN
    IF filled = {} THEN <<>>
    ELSE SubSeq(output,
                CHOOSE i \in filled : \A j \in filled : i <= j,
                CHOOSE i \in filled : \A j \in filled : j <= i)

\* C28: on success the executor returns an output of at most max_lines (50)
\* lines unchanged, and a longer one as its first max_lines lines followed by
\* the marker "... (N more lines truncated)", N being the number of lines
\* minus max_lines.
C28_OutputTruncatedToMaxLines ==
    \A e \in Calls :
        (e.result.kind = "ok" /\ e.shell[1].stdout # <<>>) =>
            LET output == e.shell[1].stdout
                lines == ContentLines(output)
            IN IF Len(lines) <= 50
               THEN e.result.text = output
               ELSE /\ Len(e.result.text) = 52
                    /\ SubSeq(e.result.text, 1, 50) = SubSeq(lines, 1, 50)
                    /\ e.result.text[51] = ""
                    /\ e.result.text[52]
                         = "... (" \o ToString(Len(lines) - 50) \o " more lines truncated)"

C28_Witness ==
    \E e \in Calls :
        /\ e.result.kind = "ok"
        /\ e.shell[1].stdout = LongOutput
        /\ e.result.text[50] = "pod-50 Running"
        /\ e.result.text[52] = "... (2 more lines truncated)"

\* C29: iteration_count equals the number of runs of the agent node so far,
\* those whose inference call failed included.
C29_IterationCountsThinkSteps == iteration_count = Len(think_log)

\* The last two entries of a list (all of it when it is shorter).
LastTwo(entries) ==
    SubSeq(entries, IF Len(entries) < 2 THEN 1 ELSE Len(entries) - 1, Len(entries))

\* C30: the prompt of every THINK step carries the two entries most recently
\* appended to knowledge_context, and no older one.
C30_PromptHasLatestTwoEntries ==
    \A i \in 1..Len(think_log) :
        think_log[i].context = LastTwo(think_log[i].knowledge_context)

\* The opening of a tool call written out as text.
ActionRequestSyntax == "{\"name\":"

\* C23: when the run has ended the last message is one of the assistant, and
\* the answer shown to the caller is its content without any tool call
\* written out as text.
C23_FinalAnswerStripped ==
    pc = "END" =>
        /\ LastMessage.role = "assistant"
        /\ \A i \in 1..Len(batch_mode_answer(messages)) :
              ~Contains(batch_mode_answer(messages)[i], ActionRequestSyntax)


(***************************************************************************)
(* Properties of runs side by side (checked under SpecRuns).               *)
(***************************************************************************)
\* A run on its own, given the answers of its collaborators one after the
\* other: the state and the position it reaches.
RECURSIVE Replay(_, _, _, _)
Replay(st, at, answers, i) ==
    IF i > Len(answers) THEN [state |-> st, pc |-> at]
    ELSE LET a == answers[i]
             next == CASE a.kind = "response" -> agent_node_ok(st, a.response[1])
                       [] a.kind = "failure" -> agent_node_failed(st, "connection refused")
                       [] OTHER -> tool_node(st, FALSE, FALSE, a.outcome[1])
         IN Replay(next,
                   IF a.kind = "outcome" THEN AfterTools ELSE RouteAt(next, RunMaxIter),
                   answers, i + 1)

RunAlone(r) ==
    LET st == create_initial_state(RunInputs[r]) IN
    Replay([messages |-> st.messages, current_task |-> st.current_task,
            error_log |-> st.error_log, iteration_count |-> st.iteration_count,
            task_complete |-> st.task_complete,
            last_tool_output |-> st.last_tool_output,
            knowledge_context |-> st.knowledge_context, exec_log |-> <<>>],
           "agent", runs[r].answers, 1)

\* C24: under every interleaving of the steps of two runs, the messages,
\* error_log, iteration_count, task_complete, last_tool_output and
\* knowledge_context of each run are at every moment those of the same run
\* on its own with the same answers of the model, the cluster and the store:
\* no step of the other run changes them, and the run ends where it would
\* end alone.
C24_RunsDoNotInterfere ==
    \A r \in Runs :
        /\ RunState(runs[r], heap) = RunAlone(r).state
        /\ runs[r].pc # "interrupted" => runs[r].pc = RunAlone(r).pc

C24_Witness ==
    /\ runs[1].pc = "END"
    /\ runs[2].pc = "END"
    /\ Len(heap[runs[1].state.error_log]) = 2
    /\ heap[runs[1].state.knowledge_context] = <<>>
    /\ heap[runs[2].state.error_log] = <<>>
    /\ Len(heap[runs[2].state.knowledge_context]) = 1
    /\ heap[runs[1].state.messages][1].content = <<"Check pod status">>
    /\ heap[runs[2].state.messages][1].content = <<"Why is web-0 pending">>

\* C25: a run that its caller has stopped has ended with an observation that
\* says Cancelled.
C25_CancelledRunIsTerminated ==
    \A r \in Runs :
        runs[r].pc = "interrupted" =>
            \E i \in 1..Len(heap[runs[r].state.messages]) :
                LET m == heap[runs[r].state.messages][i] IN
                /\ m.role = "tool"
                /\ \E j \in 1..Len(m.content) : Contains(m.content[j], "Cancelled")

(***************************************************************************)
(* Properties of the state's fields across the steps of a run (checked     *)
(* under Spec).                                                            *)
(***************************************************************************)
\* The calls of a list that ask for the knowledge search, in request order.
RagCalls(calls) == SelectSeq(calls, LAMBDA c : c.name = "read_rag_docs")

C32_MessagesAppendOnly ==
    [][ /\ Len(messages') >= Len(messages)
        /\ SubSeq(messages', 1, Len(messages)) = messages ]_vars

C32_Witness ==
    /\ pc = "END"
    /\ Len(messages) >= 5
    /\ think_log[Len(think_log)].failed
    /\ \E j \in 1..Len(messages) : messages[j].role = "tool"

\* The positions of the tool messages.
ObservationTurns(msgs) == { j \in 1..Len(msgs) : msgs[j].role = "tool" }

\* C33: last_tool_output is empty while messages holds no tool message, and
\* afterwards it is the content of the latest tool message, whether the call
\* it answers succeeded or failed.
C33_LastObservationIsLatest ==
    LET obs == ObservationTurns(messages) IN
    IF obs = {} THEN last_tool_output = <<>>
    ELSE last_tool_output
           = messages[CHOOSE j \in obs : \A k \in obs : k <= j].content

\* C37: when the run has ended, every tool call of every assistant message
\* is answered by a tool message further on in messages.
C37_NoCallLeftUnanswered ==
    pc = "END" =>
        \A i \in 1..Len(messages) :
            \A k \in 1..Len(messages[i].tool_calls) :
                \E j \in ObservationsOf(messages, messages[i].tool_calls[k].id) : j > i

\* The text the tool node records for a call that cannot succeed: a call of
\* an unknown tool, or describe_resource without its resource name.
ExpectedError(call) ==
    IF call.name \notin ToolRegistry
    THEN <<"ERROR: Tool " \o call.name \o " not found">>
    ELSE <<"ERROR: Tool " \o call.name \o " failed: ValidationError: resource_name">>

\* C39: once the tool node has run on a response, the messages that follow
\* the response are the observations of its tool calls, all of them and in
\* request order: the k-th carries the id of the k-th call, an error text when
\* that call was unknown or failed and the tool's output otherwise, also when
\* an earlier call of the same response failed.
C39_CallsDispatchedInOrder ==
    \A i \in 1..Len(messages) :
        (messages[i].tool_calls # <<>> /\ (i < Len(messages) \/ pc = "agent")) =>
            LET calls == messages[i].tool_calls IN
            /\ Len(messages) >= i + Len(calls)
            /\ \A k \in 1..Len(calls) :
                  LET m == messages[i + k] IN
                  /\ m.role = "tool"
                  /\ m.tool_call_id = calls[k].id
                  /\ IF calls[k].name \in { "restart_pod", "describe_resource" }
                     THEN m.content = ExpectedError(calls[k])
                     ELSE SubSeq(m.content[1], 1, 6) # "ERROR:"

C39_Witness ==
    /\ Len(messages) >= 5
    /\ Len(messages[2].tool_calls) = 3
    /\ messages[2].tool_calls[1].name = "restart_pod"
    /\ messages[2].tool_calls[2].name = "describe_resource"
    /\ messages[2].tool_calls[3].name = "read_rag_docs"
    /\ messages[5].role = "tool"
    /\ messages[5].content[1] = "Relevant Documentation:"
    /\ Len(knowledge_context) = 1

(***************************************************************************)
(* Dry-run mode (checked under SpecExec).                                  *)
(***************************************************************************)
EndsWith(s, suffix) ==
    /\ Len(s) >= Len(suffix)
    /\ SubSeq(s, Len(s) - Len(suffix) + 1, Len(s)) = suffix

\* C38: in dry-run mode every command that is handed to the shell and is not
\* a `kubectl get` is handed with " --dry-run=client" at its end.
C38_DryRunAppended ==
    \A e \in Calls :
        (dry_run_mode /\ e.handed # <<>> /\ ~HasVerb(e.command, "get")) =>
            EndsWith(e.handed[1], " --dry-run=client")

(***************************************************************************)
(* Properties of should_continue (checked under SpecGuard).                *)
(***************************************************************************)
\* C34: should_continue returns true exactly when task_complete is false,
\* iteration_count is below max_iterations and error_log has fewer than 5
\* entries; the call leaves the state as it was.
C34_ShouldContinueExact ==
    [][ pc = "guard" =>
          /\ pc' \in { "continue", "stop" }
          /\ (pc' = "continue")
               <=> (~task_complete /\ iteration_count < max_iterations
                    /\ Len(error_log) < 5)
          /\ UNCHANGED <<task_complete, iteration_count, error_log, max_iterations,
                         messages, current_task, last_tool_output, knowledge_context>>
      ]_vars

C34_Witness ==
    /\ pc = "stop"
    /\ ~task_complete
    /\ iteration_count = max_iterations
    /\ max_iterations = MaxIterBound
    /\ Len(error_log) = 4

(***************************************************************************)
(* Further properties of the retriever (checked under SpecRag).            *)
(***************************************************************************)
\* Comparison of two relevance scores, fractions with positive denominators.
ScoreGreater(a, b) == a.num * b.den > b.num * a.den

AllAmong(docs1, docs2) ==
    \A i \in 1..Len(docs1) : \E j \in 1..Len(docs2) : docs1[i] = docs2[j]

RECURSIVE RenderedDocs(_, _)
RenderedDocs(docs, k) ==
    IF k = 0 THEN "" ELSE RenderedDocs(docs, k - 1) \o DocText(docs, k)

\* The character count format_context has reached once it has rendered the
\* header and the first k documents.
RunningCount(docs, k) == Len(ContextHeader) + Len(RenderedDocs(docs, k))

\* C36: for an empty list format_context returns the fixed text "No relevant
\* documentation found."; otherwise it returns the header and the texts of
\* the first k documents in input order, k being the number of leading
\* documents the running count takes without passing max_length, followed,
\* when k is less than the number of documents, by the marker with the count
\* of the documents left out; nothing after the first document that does not
\* fit is rendered.
C36_RendersPrefixInOrder ==
    pc = "formatted" =>
        IF documents = <<>> THEN context = "No relevant documentation found."
        ELSE \E k \in 0..Len(documents) :
                /\ \A j \in 1..k : RunningCount(documents, j) <= max_length
                /\ k < Len(documents) => RunningCount(documents, k + 1) > max_length
                /\ context
                     = ContextHeader \o RenderedDocs(documents, k)
                       \o (IF k < Len(documents)
                           THEN "\n... (truncated, " \o ToString(Len(documents) - k)
                                \o " more results)"
                           ELSE "")

\* The second of three documents does not fit, the third would.
C36_Witness ==
    /\ pc = "formatted"
    /\ Len(documents) = 3
    /\ RunningCount(documents, 1) <= max_length
    /\ RunningCount(documents, 2) > max_length
    /\ RunningCount(documents, 1) + Len(DocText(documents, 3)) <= max_length
    /\ EndsWith(context, "(truncated, 2 more results)")

====
